---- MODULE Spec2Model ----
(***************************************************************************)
(* Progression and persistence state machine of the mode-aware clicker     *)
(* game (crypto / pencil skins, two localStorage save slots).              *)
(*                                                                         *)
(* Numbers of the game (clicks, totalClicksEarned, cpc, cps) are JavaScript*)
(* doubles; they are kept here in fixed point, as integer multiples of     *)
(* 1/Scale.  Upgrade levels and upgrade costs are whole numbers.           *)
(* A localStorage entry is a sequence: << >> when getItem returns null,    *)
(* << payload >> when a value is stored.                                   *)
(***************************************************************************)
EXTENDS Integers, Sequences, FiniteSets, TLC

\* ------------------------------------------------------------------------
\* Bounds of the exploration
\* ------------------------------------------------------------------------
Scale == 4
MaxClicks == 12
MaxLevel == 2

\* ------------------------------------------------------------------------
\* Program constants
\* ------------------------------------------------------------------------
CRYPTO_KEY == "cryptoClickerSave"
PENCIL_KEY == "pencilClickerSave"
GAME_MODE_KEY == "clickerGameMode"

Modes == {"crypto", "pencil"}
UpgradeKeys == {"cpuOverclock", "gpuMiner"}

UPGRADE_CONFIGS ==
    [crypto |-> [upgrade1 |-> [cpcBonus |-> 1, cpsBonus |-> 0],
                 upgrade2 |-> [cpcBonus |-> 0, cpsBonus |-> 5]],
     pencil |-> [upgrade1 |-> [cpcBonus |-> 1, cpsBonus |-> 0],
                 upgrade2 |-> [cpcBonus |-> 0, cpsBonus |-> 5]]]

\* gameState.totalUpgrades does not exist until updateCPS has run
Undefined == 0 - 1

\* costMultiplier 1.5 and 1.6 as exact fractions << numerator, denominator >>
DEFAULT_GAME_STATE ==
    [clicks |-> 0,
     totalClicksEarned |-> 0,
     cpc |-> 1 * Scale,
     cps |-> 0,
     upgrades |->
        [cpuOverclock |-> [level |-> 0, baseCost |-> 10, costMultiplier |-> <<3, 2>>],
         gpuMiner     |-> [level |-> 0, baseCost |-> 100, costMultiplier |-> <<8, 5>>]],
     activeTab |-> "upgrades",
     isAdminUnlocked |-> FALSE,
     isCpcOverridden |-> FALSE,
     isCpsOverridden |-> FALSE,
     totalUpgrades |-> Undefined]

BonusGrant == 5000

\* the double Infinity, above every finite number of the game, and the
\* JSON value null; no arithmetic is done on either
Infinity == 1000000 * Scale
JSONnull == 0 - Infinity

VARIABLES
    gameState,      \* the in-memory game state object
    gameMode,       \* the active mode, "crypto" or "pencil"
    storage,        \* localStorage: key -> << >> or << payload >>
    quotaExceeded,  \* TRUE while localStorage.setItem throws
    reloadPending,  \* TRUE while the reload timer of handleResetGame is armed
    intervals       \* number of setInterval(gameLoop, 1000) timers of the page

vars == <<gameState, gameMode, storage, quotaExceeded, reloadPending, intervals>>

\* ------------------------------------------------------------------------
\* Arithmetic helpers
\* ------------------------------------------------------------------------
RECURSIVE MathPow(_, _)
MathPow(b, e) == IF e <= 0 THEN 1 ELSE b * MathPow(b, e - 1)

\* Math.floor and Math.round on a fixed-point number, result fixed-point
MathFloor(x) == Scale * (x \div Scale)
MathRound(x) == Scale * ((2 * x + Scale) \div (2 * Scale))

\* ------------------------------------------------------------------------
\* Game mode logic
\* ------------------------------------------------------------------------
\* faulty variant of getCurrentSaveKey: one slot whatever the mode
getCurrentSaveKey_singleSlot(mode) == CRYPTO_KEY

\* getCurrentSaveKey(), the global gameMode passed as mode
getCurrentSaveKey(mode) == IF mode = "pencil" THEN PENCIL_KEY ELSE CRYPTO_KEY

\* JSON.stringify(gameState): every own property of the object is written;
\* a property whose value is undefined is omitted (kept here as Undefined).
JSONnumber(x) == IF x = Infinity THEN JSONnull ELSE x

\* JSON.stringify writes a number that is not finite as null.
JSONstringify(gs) ==
    [clicks |-> JSONnumber(gs.clicks),
     totalClicksEarned |-> JSONnumber(gs.totalClicksEarned),
     cpc |-> JSONnumber(gs.cpc),
     cps |-> JSONnumber(gs.cps),
     upgrades |-> [k \in UpgradeKeys |->
                     [level |-> gs.upgrades[k].level,
                      baseCost |-> gs.upgrades[k].baseCost,
                      costMultiplier |-> gs.upgrades[k].costMultiplier]],
     activeTab |-> gs.activeTab,
     isAdminUnlocked |-> gs.isAdminUnlocked,
     isCpcOverridden |-> gs.isCpcOverridden,
     isCpsOverridden |-> gs.isCpsOverridden,
     totalUpgrades |-> gs.totalUpgrades]

\* localStorage.setItem(key, value) on store st; when the quota is
\* exceeded the call throws and the store is left as it was.
setItem(st, key, value) ==
    IF quotaExceeded THEN st ELSE [st EXCEPT ![key] = <<value>>]

removeItem(st, key) == [st EXCEPT ![key] = << >>]

\* the JavaScript  x || d  on a number and on a string
OrNumber(x, d) == IF x = 0 \/ x = JSONnull THEN d ELSE x
OrString(x, d) == IF x = "" THEN d ELSE x
OrBoolean(x, d) == IF x THEN x ELSE d

\* A stored string that is not the JSON text of an object is kept as
\* [raw |-> text]; the JSON text of an object is kept as the record of the
\* properties it holds.  A property holding null reads as falsy, exactly as
\* a property that is missing, and is kept as a missing field.
RawPayload(text) == [raw |-> text]
IsRaw(payload) == "raw" \in DOMAIN payload

\* if (savedState): getItem gave a string that is not empty
Truthy(savedState) ==
    /\ savedState # << >>
    /\ ~(IsRaw(savedState[1]) /\ savedState[1].raw = "")

\* loadedData.field || d
NumberField(loadedData, field, d) ==
    IF field \in DOMAIN loadedData THEN OrNumber(loadedData[field], d) ELSE d
StringField(loadedData, field, d) ==
    IF field \in DOMAIN loadedData THEN OrString(loadedData[field], d) ELSE d
BooleanField(loadedData, field, d) ==
    IF field \in DOMAIN loadedData THEN OrBoolean(loadedData[field], d) ELSE d

\* the level loadGame leaves in upgrade key
LoadedLevel(loadedData, key) ==
    IF /\ "upgrades" \in DOMAIN loadedData
       /\ key \in DOMAIN loadedData.upgrades
    THEN NumberField(loadedData.upgrades[key], "level", 0)
    ELSE DEFAULT_GAME_STATE.upgrades[key].level

\* loadGame(): the game state after loading the slot of mode from store st,
\* gs being the in-memory state before the call.  JSON.parse throws on a
\* raw string, and the catch block falls back to the default state.
loadGame(st, gs, mode) ==
    LET savedState == st[getCurrentSaveKey(mode)] IN
    IF Truthy(savedState)
    THEN IF IsRaw(savedState[1])
         THEN DEFAULT_GAME_STATE
         ELSE LET loadedData == savedState[1] IN
         [DEFAULT_GAME_STATE EXCEPT
            !.clicks = NumberField(loadedData, "clicks", 0),
            !.totalClicksEarned = NumberField(loadedData, "totalClicksEarned", 0),
            !.cpc = NumberField(loadedData, "cpc", 1 * Scale),
            !.cps = NumberField(loadedData, "cps", 0),
            !.activeTab = StringField(loadedData, "activeTab", "upgrades"),
            !.isAdminUnlocked = BooleanField(loadedData, "isAdminUnlocked", FALSE),
            !.isCpcOverridden = BooleanField(loadedData, "isCpcOverridden", FALSE),
            !.isCpsOverridden = BooleanField(loadedData, "isCpsOverridden", FALSE),
            !.upgrades = [k \in UpgradeKeys |->
                [DEFAULT_GAME_STATE.upgrades[k] EXCEPT
                    !.level = LoadedLevel(loadedData, k)]]]
    ELSE gs

\* saveGame(): the store after saving gs under the slot of mode; the
\* exception of a failed write is caught inside saveGame.
saveGame(st, gs, mode) == setItem(st, getCurrentSaveKey(mode), JSONstringify(gs))

\* ------------------------------------------------------------------------
\* Core game mechanics
\* ------------------------------------------------------------------------
\* faulty variant of calculateCost: rounds up instead of down
calculateCost_ceil(baseCost, multiplier, currentLevel) ==
    0 - ((0 - baseCost * MathPow(multiplier[1], currentLevel))
            \div MathPow(multiplier[2], currentLevel))

\* Math.floor(baseCost * Math.pow(multiplier, currentLevel)); a negative
\* exponent divides by the power
calculateCost(baseCost, multiplier, currentLevel) ==
    IF currentLevel >= 0
    THEN (baseCost * MathPow(multiplier[1], currentLevel))
            \div MathPow(multiplier[2], currentLevel)
    ELSE (baseCost * MathPow(multiplier[2], 0 - currentLevel))
            \div MathPow(multiplier[1], 0 - currentLevel)

\* faulty variants of updateCPS: the CPS override flag is not consulted;
\* the base click power of 1 is left out
updateCPS_ignoresCpsFlag(gs, mode) ==
    LET config == UPGRADE_CONFIGS[mode]
        upgrade1 == gs.upgrades.cpuOverclock
        upgrade2 == gs.upgrades.gpuMiner
    IN [gs EXCEPT
          !.cpc = IF ~gs.isCpcOverridden
                  THEN Scale * (1 + upgrade1.level * config.upgrade1.cpcBonus)
                  ELSE gs.cpc,
          !.cps = Scale * (upgrade2.level * config.upgrade2.cpsBonus),
          !.totalUpgrades = upgrade1.level + upgrade2.level]

updateCPS_noBase(gs, mode) ==
    LET config == UPGRADE_CONFIGS[mode]
        upgrade1 == gs.upgrades.cpuOverclock
        upgrade2 == gs.upgrades.gpuMiner
    IN [gs EXCEPT
          !.cpc = IF ~gs.isCpcOverridden
                  THEN Scale * (upgrade1.level * config.upgrade1.cpcBonus)
                  ELSE gs.cpc,
          !.cps = IF ~gs.isCpsOverridden
                  THEN Scale * (upgrade2.level * config.upgrade2.cpsBonus)
                  ELSE gs.cps,
          !.totalUpgrades = upgrade1.level + upgrade2.level]

\* faulty variant of updateCPS: every upgrade level feeds CPS
updateCPS_allLevelsFeedCps(gs, mode) ==
    LET config == UPGRADE_CONFIGS[mode]
        upgrade1 == gs.upgrades.cpuOverclock
        upgrade2 == gs.upgrades.gpuMiner
    IN [gs EXCEPT
          !.cpc = IF ~gs.isCpcOverridden
                  THEN Scale * (1 + upgrade1.level * config.upgrade1.cpcBonus)
                  ELSE gs.cpc,
          !.cps = IF ~gs.isCpsOverridden
                  THEN Scale * ((upgrade1.level + upgrade2.level)
                                   * config.upgrade2.cpsBonus)
                  ELSE gs.cps,
          !.totalUpgrades = upgrade1.level + upgrade2.level]

\* faulty variant of updateCPS: the bonus is added onto the current stat
updateCPS_accumulates(gs, mode) ==
    LET config == UPGRADE_CONFIGS[mode]
        upgrade1 == gs.upgrades.cpuOverclock
        upgrade2 == gs.upgrades.gpuMiner
    IN [gs EXCEPT
          !.cpc = IF ~gs.isCpcOverridden
                  THEN @ + Scale * (upgrade1.level * config.upgrade1.cpcBonus)
                  ELSE gs.cpc,
          !.cps = IF ~gs.isCpsOverridden
                  THEN @ + Scale * (upgrade2.level * config.upgrade2.cpsBonus)
                  ELSE gs.cps,
          !.totalUpgrades = upgrade1.level + upgrade2.level]

updateCPS(gs, mode) ==
    LET config == UPGRADE_CONFIGS[mode]
        upgrade1 == gs.upgrades.cpuOverclock
        upgrade2 == gs.upgrades.gpuMiner
    IN [gs EXCEPT
          !.cpc = IF ~gs.isCpcOverridden
                  THEN Scale * (1 + upgrade1.level * config.upgrade1.cpcBonus)
                  ELSE gs.cpc,
          !.cps = IF ~gs.isCpsOverridden
                  THEN Scale * (upgrade2.level * config.upgrade2.cpsBonus)
                  ELSE gs.cps,
          !.totalUpgrades = upgrade1.level + upgrade2.level]

\* switchTab(tabId) for a tab whose panel and button exist
switchTabState(gs, tabId) == [gs EXCEPT !.activeTab = tabId]

\* ------------------------------------------------------------------------
\* Inputs of the handlers
\* ------------------------------------------------------------------------
\* the value of an admin input field after parseFloat: NaN or a number
NaN == [nan |-> TRUE, v |-> 0]
Num(x) == [nan |-> FALSE, v |-> x]

AdminClicksInputs ==
    {NaN, Num(0 - Scale), Num(10 * Scale - 1), Num(10 * Scale)}
\* enough to pay for the first GPU Miner
AdminClicksGpuInputs == {Num(100 * Scale)}
AdminCpcInputs == {NaN, Num(0 - 1), Num(0), Num(3 * Scale)}
AdminCpsInputs ==
    {NaN, Num(0 - 1), Num(1), Num((Scale + 1) \div 2)}
AdminLevelInputs ==
    {NaN, Num(0 - Scale), Num(1), Num(1 * Scale), Num(MaxLevel * Scale)}

\* ids passed to handleBuyUpgrade; the listeners pass '1' and '2'
UpgradeIds == {"1", "2", "3"}

TabIds == {"upgrades", "admin"}

\* text typed into the code input, one character per element
CodeInputs ==
    {<<" ", "a", "d", "m", "i", "n", " ">>,
     <<"A", "D", "M", "I", "N">>,
     <<"b", "o", "r", "n", "T", "O", "C", "O", "D", "E">>,
     <<"K", "a", "i", "t", "l", "y", "n", "C", "l", "a", "r", "k", " ">>,
     <<"x", "y", "z">>,
     <<" ", " ">>,
     << >>}

\* ------------------------------------------------------------------------
\* String helpers of handleRedeemCode
\* ------------------------------------------------------------------------
LowerCase == <<"a", "b", "c", "d", "e", "i", "k", "l", "m", "n", "o", "r",
               "t", "x", "y", "z">>
UpperCase == <<"A", "B", "C", "D", "E", "I", "K", "L", "M", "N", "O", "R",
               "T", "X", "Y", "Z">>

toUpperCaseChar(c) ==
    IF \E i \in 1..Len(LowerCase) : LowerCase[i] = c
    THEN UpperCase[CHOOSE i \in 1..Len(LowerCase) : LowerCase[i] = c]
    ELSE c

toUpperCase(str) == [i \in 1..Len(str) |-> toUpperCaseChar(str[i])]

RECURSIVE trimStart(_)
trimStart(str) ==
    IF str # << >> /\ Head(str) = " " THEN trimStart(Tail(str)) ELSE str

RECURSIVE trimEnd(_)
trimEnd(str) ==
    IF str # << >> /\ str[Len(str)] = " "
    THEN trimEnd(SubSeq(str, 1, Len(str) - 1))
    ELSE str

\* faulty variant of trim: trailing whitespace is kept
trim_startOnly(str) == trimStart(str)

trim(str) == trimEnd(trimStart(str))

KAITLYNCLARK == <<"K", "A", "I", "T", "L", "Y", "N", "C", "L", "A", "R", "K">>
ADMIN == <<"A", "D", "M", "I", "N">>
BORNTOCODE == <<"B", "O", "R", "N", "T", "O", "C", "O", "D", "E">>

\* ------------------------------------------------------------------------
\* Initial state: the page has been opened for the first time, on an empty
\* localStorage, and initializeGame has run.
\* ------------------------------------------------------------------------
EmptyStorage ==
    [k \in {CRYPTO_KEY, PENCIL_KEY, GAME_MODE_KEY} |-> << >>]

\* the game state initializeGame() builds on a freshly loaded page over
\* store st: loadGame onto the module-level default, then updateCPS
initializeGameState(st, mode) ==
    updateCPS(loadGame(st, DEFAULT_GAME_STATE, mode), mode)

Init ==
    /\ gameMode = "crypto"
    /\ quotaExceeded = FALSE
    /\ reloadPending = FALSE
    /\ intervals = 1
    /\ gameState = initializeGameState(EmptyStorage, "crypto")
    /\ storage = [EmptyStorage EXCEPT
                    ![CRYPTO_KEY] =
                        <<JSONstringify(initializeGameState(EmptyStorage, "crypto"))>>]

\* ------------------------------------------------------------------------
\* Event handlers
\* ------------------------------------------------------------------------
\* faulty variant of clickState: the lifetime total is not credited
clickState_clicksOnly(gs) ==
    LET clicksGained == gs.cpc IN
    [gs EXCEPT !.clicks = @ + clicksGained]

clickState(gs) ==
    LET clicksGained == gs.cpc IN
    [gs EXCEPT !.clicks = @ + clicksGained,
               !.totalClicksEarned = @ + clicksGained]

handleGameClick ==
    /\ gameState' = clickState(gameState)
    /\ storage' = saveGame(storage, clickState(gameState), gameMode)
    /\ UNCHANGED <<gameMode, quotaExceeded, reloadPending, intervals>>

upgradeKeyOf(upgradeId) == IF upgradeId = "1" THEN "cpuOverclock" ELSE "gpuMiner"

costOf(gs, upgradeKey) ==
    calculateCost(gs.upgrades[upgradeKey].baseCost,
                  gs.upgrades[upgradeKey].costMultiplier,
                  gs.upgrades[upgradeKey].level)

\* faulty variant of buyUpgradeState: a purchase clears both override flags
buyUpgradeState_clearsBoth(gs, upgradeKey, mode) ==
    LET cost == costOf(gs, upgradeKey)
        paid == [gs EXCEPT
                   !.clicks = @ - cost * Scale,
                   !.upgrades[upgradeKey].level = @ + 1,
                   !.isCpcOverridden = FALSE,
                   !.isCpsOverridden = FALSE]
    IN updateCPS(paid, mode)

\* the branch of handleBuyUpgrade taken when the cost can be paid
buyUpgradeState(gs, upgradeKey, mode) ==
    LET cost == costOf(gs, upgradeKey)
        paid == [gs EXCEPT
                   !.clicks = @ - cost * Scale,
                   !.upgrades[upgradeKey].level = @ + 1,
                   !.isCpcOverridden =
                        IF upgradeKey = "cpuOverclock" THEN FALSE ELSE @,
                   !.isCpsOverridden =
                        IF upgradeKey = "gpuMiner" THEN FALSE ELSE @]
    IN updateCPS(paid, mode)

\* faulty variants of canBuy: no affordability test; test against baseCost
canBuy_always(gs, upgradeKey) == gs.clicks >= 0
canBuy_baseCost(gs, upgradeKey) ==
    gs.clicks >= gs.upgrades[upgradeKey].baseCost * Scale

canBuy(gs, upgradeKey) == gs.clicks >= costOf(gs, upgradeKey) * Scale

handleBuyUpgrade(upgradeId) ==
    LET upgradeKey == upgradeKeyOf(upgradeId) IN
    /\ IF canBuy(gameState, upgradeKey)
       THEN /\ gameState' = buyUpgradeState(gameState, upgradeKey, gameMode)
            /\ storage' = saveGame(storage,
                             buyUpgradeState(gameState, upgradeKey, gameMode),
                             gameMode)
       ELSE UNCHANGED <<gameState, storage>>
    /\ UNCHANGED <<gameMode, quotaExceeded, reloadPending, intervals>>

\* faulty variant of tickState: the rate is added without Math.round
tickState_unrounded(gs) ==
    LET clicksGained == gs.cps IN
    [gs EXCEPT !.clicks = @ + clicksGained,
               !.totalClicksEarned = @ + clicksGained]

\* faulty variant of tickState: passive income is not counted as earned
tickState_notCredited(gs) ==
    LET clicksGained == MathRound(gs.cps) IN
    [gs EXCEPT !.clicks = @ + clicksGained]

tickState(gs) ==
    LET clicksGained == MathRound(gs.cps) IN
    [gs EXCEPT !.clicks = @ + clicksGained,
               !.totalClicksEarned = @ + clicksGained]

\* the game state one run of gameLoop leaves
gameLoopState(gs) == IF gs.cps > 0 THEN tickState(gs) ELSE gs

\* faulty variant of gameLoop: a firing saves when the balance has reached
\* or passed a multiple of 5
gameLoop_savesOnCrossing ==
    /\ gameState' = gameLoopState(gameState)
    /\ storage' =
         IF /\ gameState.cps > 0
            /\ (MathFloor(gameLoopState(gameState).clicks) \div Scale) \div 5
                  > (MathFloor(gameState.clicks) \div Scale) \div 5
         THEN saveGame(storage, gameLoopState(gameState), gameMode)
         ELSE storage
    /\ UNCHANGED <<gameMode, quotaExceeded, reloadPending, intervals>>

\* faulty variant of gameLoop: every firing with a positive rate saves
gameLoop_savesEveryTick ==
    /\ gameState' = gameLoopState(gameState)
    /\ storage' =
         IF gameState.cps > 0
         THEN saveGame(storage, gameLoopState(gameState), gameMode)
         ELSE storage
    /\ UNCHANGED <<gameMode, quotaExceeded, reloadPending, intervals>>

gameLoop ==
    /\ gameState' = gameLoopState(gameState)
    /\ storage' =
         IF /\ gameState.cps > 0
            /\ (MathFloor(gameLoopState(gameState).clicks) \div Scale) % 5 = 0
         THEN saveGame(storage, gameLoopState(gameState), gameMode)
         ELSE storage
    /\ UNCHANGED <<gameMode, quotaExceeded, reloadPending, intervals>>

switchTab(tabId) ==
    /\ gameState' = switchTabState(gameState, tabId)
    /\ storage' = saveGame(storage, switchTabState(gameState, tabId), gameMode)
    /\ UNCHANGED <<gameMode, quotaExceeded, reloadPending, intervals>>

\* the two storage writes of switchGameMode in the order the function
\* makes them, as the store after each: the mode tracker, then the state
\* of the mode that is left
switchGameModeWrites(st, gs, oldMode, newMode) ==
    LET st1 == setItem(st, GAME_MODE_KEY, newMode)
        st2 == setItem(st1, (IF oldMode = "crypto" THEN CRYPTO_KEY ELSE PENCIL_KEY),
                       JSONstringify(gs))
    IN <<st1, st2>>

\* faulty variant of switchGameMode: without the early return on the
\* active mode
switchGameMode_noReturn(newMode) ==
    /\ gameMode' = newMode
    /\ IF quotaExceeded
       THEN UNCHANGED <<gameState, storage>>
       ELSE LET st2 == switchGameModeWrites(storage, gameState, gameMode, newMode)[2]
                loaded == loadGame(st2, gameState, newMode)
                gs == switchTabState(updateCPS(loaded, newMode), loaded.activeTab)
            IN /\ gameState' = gs
               /\ storage' = saveGame(st2, gs, newMode)

\* switchGameMode(newMode).  gameMode is assigned first; the write of the
\* mode tracker is outside any try block, so when it throws the calling
\* handler ends there.
switchGameMode(newMode) ==
    IF gameMode = newMode
    THEN UNCHANGED <<gameMode, gameState, storage>>
    ELSE /\ gameMode' = newMode
         /\ IF quotaExceeded
            THEN UNCHANGED <<gameState, storage>>
            ELSE LET st2 == switchGameModeWrites(storage, gameState, gameMode, newMode)[2]
                     loaded == loadGame(st2, gameState, newMode)
                     gs == switchTabState(updateCPS(loaded, newMode), loaded.activeTab)
                 IN /\ gameState' = gs
                    /\ storage' = saveGame(st2, gs, newMode)

handleSwitchToCrypto ==
    /\ switchGameMode(IF gameMode = "crypto" THEN "pencil" ELSE "crypto")
    /\ UNCHANGED <<quotaExceeded, reloadPending, intervals>>

\* faulty variant of unlockAdminState: the admin tab opens, the flag is not set
unlockAdminState_noFlag(gs) == switchTabState(gs, "admin")

unlockAdminState(gs) ==
    switchTabState([gs EXCEPT !.isAdminUnlocked = TRUE], "admin")

\* faulty variant of grantState: the bonus is granted once per profile
grantState_once(gs) ==
    IF gs.totalClicksEarned >= BonusGrant * Scale
    THEN gs
    ELSE [gs EXCEPT !.clicks = @ + BonusGrant * Scale,
                    !.totalClicksEarned = @ + BonusGrant * Scale]

grantState(gs) ==
    [gs EXCEPT !.clicks = @ + BonusGrant * Scale,
               !.totalClicksEarned = @ + BonusGrant * Scale]

\* the text handleRedeemCode puts into codeMessageDisplay, by branch
codeMessage(input, gs, mode) ==
    LET code == toUpperCase(trim(input)) IN
    IF code = KAITLYNCLARK
    THEN IF mode = "pencil"
         THEN "Pencil Clicker is already active!"
         ELSE "SECRET CODE accepted! Welcome to PENCIL CLICKER!"
    ELSE IF code = ADMIN
    THEN IF gs.isAdminUnlocked
         THEN "Admin panel is already unlocked!"
         ELSE "ADMIN panel UNLOCKED! Check the new tab!"
    ELSE IF code = BORNTOCODE
    THEN "Code REDEEMED! You gained 5,000 clicks!"
    ELSE IF code # << >>
    THEN "Invalid code. Try again!"
    ELSE "Please enter a code."

handleRedeemCode(input) ==
    LET code == toUpperCase(trim(input)) IN
    /\ IF code = KAITLYNCLARK
       THEN IF gameMode = "pencil"
            THEN UNCHANGED <<gameMode, gameState, storage>>
            ELSE switchGameMode("pencil")
       ELSE IF code = ADMIN
       THEN IF gameState.isAdminUnlocked
            THEN UNCHANGED <<gameMode, gameState, storage>>
            ELSE /\ gameState' = unlockAdminState(gameState)
                 /\ storage' = saveGame(
                                 saveGame(storage, unlockAdminState(gameState), gameMode),
                                 unlockAdminState(gameState), gameMode)
                 /\ UNCHANGED gameMode
       ELSE IF code = BORNTOCODE
       THEN /\ gameState' = grantState(gameState)
            /\ storage' = saveGame(storage, grantState(gameState), gameMode)
            /\ UNCHANGED gameMode
       ELSE UNCHANGED <<gameMode, gameState, storage>>
    /\ UNCHANGED <<quotaExceeded, reloadPending, intervals>>

handleResetGame ==
    /\ storage' = removeItem(removeItem(removeItem(storage, CRYPTO_KEY),
                                        PENCIL_KEY), GAME_MODE_KEY)
    /\ reloadPending' = TRUE
    /\ UNCHANGED <<gameState, gameMode, quotaExceeded, intervals>>

\* ------------------------------------------------------------------------
\* Admin handlers
\* ------------------------------------------------------------------------
\* the min attribute of the admin input fields
AdminMinValue == 0

\* validateAdminInput: << >> for null, << value >> for a validated number
NumberIsInteger(v) == v # Infinity /\ v % Scale = 0

\* faulty variant of validateAdminInput: a level need not be a whole number
validateAdminInput_noIntegerCheck(input, isLevel) ==
    IF input.nan THEN << >>
    ELSE IF input.v < AdminMinValue * Scale THEN << >>
    ELSE <<input.v>>

validateAdminInput(input, isLevel) ==
    IF input.nan THEN << >>
    ELSE IF input.v < AdminMinValue * Scale THEN << >>
    ELSE IF isLevel /\ ~NumberIsInteger(input.v) THEN << >>
    ELSE <<input.v>>

\* faulty variants of adminSetClicksState: an increase is not credited to
\* the lifetime total; a decrease is debited from it
adminSetClicksState_noCredit(gs, value) ==
    [gs EXCEPT !.clicks = value]

adminSetClicksState_signedDiff(gs, value) ==
    LET diff == value - gs.clicks IN
    [gs EXCEPT !.clicks = value,
               !.totalClicksEarned = @ + diff]

adminSetClicksState(gs, value) ==
    LET diff == value - gs.clicks IN
    [gs EXCEPT !.clicks = value,
               !.totalClicksEarned = IF diff > 0 THEN @ + diff ELSE @]

\* faulty variant of adminSetCpcState: the override also resets the level
adminSetCpcState_resetsLevel(gs, value) ==
    [gs EXCEPT !.cpc = value, !.isCpcOverridden = TRUE,
               !.upgrades.cpuOverclock.level = 0]

adminSetCpcState(gs, value) ==
    [gs EXCEPT !.cpc = value, !.isCpcOverridden = TRUE]

adminSetCpsState(gs, value) ==
    [gs EXCEPT !.cps = value, !.isCpsOverridden = TRUE]

adminSetCpuLevelState(gs, value, mode) ==
    updateCPS([gs EXCEPT !.upgrades.cpuOverclock.level = value \div Scale,
                         !.isCpcOverridden = FALSE], mode)

adminSetGpuLevelState(gs, value, mode) ==
    updateCPS([gs EXCEPT !.upgrades.gpuMiner.level = value \div Scale,
                         !.isCpsOverridden = FALSE], mode)

handleAdminSetClicks(input) ==
    LET value == validateAdminInput(input, FALSE) IN
    /\ IF value # << >>
       THEN /\ gameState' = adminSetClicksState(gameState, value[1])
            /\ storage' = saveGame(storage,
                             adminSetClicksState(gameState, value[1]), gameMode)
       ELSE UNCHANGED <<gameState, storage>>
    /\ UNCHANGED <<gameMode, quotaExceeded, reloadPending, intervals>>

handleAdminSetCPC(input) ==
    LET value == validateAdminInput(input, FALSE) IN
    /\ IF value # << >>
       THEN /\ gameState' = adminSetCpcState(gameState, value[1])
            /\ storage' = saveGame(storage,
                             adminSetCpcState(gameState, value[1]), gameMode)
       ELSE UNCHANGED <<gameState, storage>>
    /\ UNCHANGED <<gameMode, quotaExceeded, reloadPending, intervals>>

handleAdminSetCPS(input) ==
    LET value == validateAdminInput(input, FALSE) IN
    /\ IF value # << >>
       THEN /\ gameState' = adminSetCpsState(gameState, value[1])
            /\ storage' = saveGame(storage,
                             adminSetCpsState(gameState, value[1]), gameMode)
       ELSE UNCHANGED <<gameState, storage>>
    /\ UNCHANGED <<gameMode, quotaExceeded, reloadPending, intervals>>

handleAdminSetCpuLevel(input) ==
    LET value == validateAdminInput(input, TRUE) IN
    /\ IF value # << >>
       THEN /\ gameState' = adminSetCpuLevelState(gameState, value[1], gameMode)
            /\ storage' = saveGame(storage,
                             adminSetCpuLevelState(gameState, value[1], gameMode),
                             gameMode)
       ELSE UNCHANGED <<gameState, storage>>
    /\ UNCHANGED <<gameMode, quotaExceeded, reloadPending, intervals>>

handleAdminSetGpuLevel(input) ==
    LET value == validateAdminInput(input, TRUE) IN
    /\ IF value # << >>
       THEN /\ gameState' = adminSetGpuLevelState(gameState, value[1], gameMode)
            /\ storage' = saveGame(storage,
                             adminSetGpuLevelState(gameState, value[1], gameMode),
                             gameMode)
       ELSE UNCHANGED <<gameState, storage>>
    /\ UNCHANGED <<gameMode, quotaExceeded, reloadPending, intervals>>

\* ------------------------------------------------------------------------
\* Page life cycle and environment
\* ------------------------------------------------------------------------
\* a page load: the module-level code reads the mode tracker, then
\* initializeGame loads the slot, recomputes the stats, re-activates the
\* saved tab (which saves) and starts the one timer of the fresh page
initializeGame ==
    LET mode == IF storage[GAME_MODE_KEY] # << >>
                THEN storage[GAME_MODE_KEY][1] ELSE "crypto"
        gs == switchTabState(initializeGameState(storage, mode),
                             initializeGameState(storage, mode).activeTab)
    IN /\ gameMode' = mode
       /\ gameState' = gs
       /\ storage' = saveGame(storage, gs, mode)
       /\ reloadPending' = FALSE
       /\ intervals' = 1
       /\ UNCHANGED quotaExceeded

\* initializeGame() called once more in the running page: the mode and the
\* game state in memory are those of the page, the slot is loaded onto
\* them, and one more timer is started
initializeGameAgain ==
    LET loaded == updateCPS(loadGame(storage, gameState, gameMode), gameMode)
        gs == switchTabState(loaded, loaded.activeTab)
    IN /\ gameState' = gs
       /\ storage' = saveGame(storage, gs, gameMode)
       /\ intervals' = intervals + 1
       /\ UNCHANGED <<gameMode, quotaExceeded, reloadPending>>

\* the user reloads or reopens the page
pageReload == initializeGame

\* the timer armed by handleResetGame fires window.location.reload()
resetReloadTimer == reloadPending /\ initializeGame

\* localStorage fills up, or room is made again
quotaChange ==
    /\ quotaExceeded' = ~quotaExceeded
    /\ UNCHANGED <<gameState, gameMode, storage, reloadPending, intervals>>

\* ------------------------------------------------------------------------
\* Specifications.  The handlers above carry no exploration bound; each
\* specification limits how far earnings and levels are followed.
\* ------------------------------------------------------------------------
Level(gs, k) == gs.upgrades[k].level
OtherKey(k) == IF k = "cpuOverclock" THEN "gpuMiner" ELSE "cpuOverclock"

LevelsWithin(gs) == \A k \in UpgradeKeys : gs.upgrades[k].level <= MaxLevel

\* the step earns nothing, or lifetime earnings stay within limit
EarnsWithin(limit) ==
    \/ gameState'.totalClicksEarned <= gameState.totalClicksEarned
    \/ gameState'.totalClicksEarned <= limit * Scale

SetLimit == 100 + MaxClicks

SwitchCodes == {c \in CodeInputs : toUpperCase(trim(c)) = KAITLYNCLARK}
GrantCodes == {c \in CodeInputs : toUpperCase(trim(c)) = BORNTOCODE}

\* Spec: the progression engine in one mode, storage writes succeeding
Next ==
    \/ handleGameClick /\ EarnsWithin(MaxClicks)
    \/ \E upgradeId \in UpgradeIds :
          handleBuyUpgrade(upgradeId) /\ LevelsWithin(gameState')
    \/ gameLoop /\ EarnsWithin(MaxClicks)
    \/ \E input \in CodeInputs \ (SwitchCodes \cup GrantCodes) :
          handleRedeemCode(input)
    \/ \E input \in AdminClicksInputs :
          handleAdminSetClicks(input) /\ EarnsWithin(MaxClicks)
    \/ \E input \in AdminClicksGpuInputs :
          handleAdminSetClicks(input) /\ EarnsWithin(SetLimit)
    \/ \E input \in AdminCpcInputs : handleAdminSetCPC(input)
    \/ \E input \in AdminCpsInputs : handleAdminSetCPS(input)
    \/ \E input \in AdminLevelInputs : handleAdminSetCpuLevel(input)
    \/ \E input \in AdminLevelInputs : handleAdminSetGpuLevel(input)

Spec == Init /\ [][Next]_vars

\* SpecCost: calculateCost over a range of upgrade definitions.  The
\* initial states hold a CPU Overclock of any base cost, multiplier and
\* level of the ranges below; purchases then walk the levels.
CostBases == {1, 3, 10, 100}
CostMultipliers == {<<3, 2>>, <<8, 5>>, <<2, 1>>}
CostFunds == 1000

InitCost ==
    /\ gameMode = "crypto"
    /\ quotaExceeded = FALSE
    /\ reloadPending = FALSE
    /\ intervals = 1
    /\ \E b \in CostBases, m \in CostMultipliers, l \in 0..MaxLevel :
          gameState = updateCPS(
              [DEFAULT_GAME_STATE EXCEPT
                  !.upgrades.cpuOverclock =
                      [level |-> l, baseCost |-> b, costMultiplier |-> m]],
              "crypto")
    /\ storage = [EmptyStorage EXCEPT ![CRYPTO_KEY] = <<JSONstringify(gameState)>>]

NextCost ==
    \/ handleAdminSetClicks(Num(CostFunds * Scale))
    \/ \E upgradeId \in {"1", "2"} :
          handleBuyUpgrade(upgradeId) /\ LevelsWithin(gameState')

SpecCost == InitCost /\ [][NextCost]_vars

\* SpecModes: the two save slots, mode switches, page loads and reset, with
\* a small repertoire of engine operations in each mode.
MaxModeClicks == 2

ModeCodes == {<<" ", "a", "d", "m", "i", "n", " ">>,
              <<"K", "a", "i", "t", "l", "y", "n", "C", "l", "a", "r", "k", " ">>,
              <<"x", "y", "z">>}

NextModes ==
    \/ handleGameClick /\ EarnsWithin(MaxModeClicks)
    \/ handleBuyUpgrade("1") /\ Level(gameState', "cpuOverclock") <= 1
    \/ gameLoop /\ EarnsWithin(MaxModeClicks)
    \/ \E tabId \in TabIds : switchTab(tabId)
    \/ handleSwitchToCrypto
    \/ \E input \in ModeCodes : handleRedeemCode(input)
    \/ handleAdminSetClicks(Num(10 * Scale)) /\ EarnsWithin(10 + MaxModeClicks)
    \/ handleAdminSetCPC(Num(0))
    \/ handleAdminSetCPS(Num((Scale + 1) \div 2))
    \/ handleResetGame
    \/ pageReload
    \/ resetReloadTimer

SpecModes == Init /\ [][NextModes]_vars

\* SpecQuota: clicks, tab and mode switches and page loads while
\* localStorage may run full and be freed again
NextQuota ==
    \/ handleGameClick /\ EarnsWithin(MaxModeClicks)
    \/ \E tabId \in TabIds : switchTab(tabId)
    \/ handleSwitchToCrypto
    \/ handleAdminSetCPS(Num((Scale + 1) \div 2))
    \/ pageReload
    \/ quotaChange

SpecQuota == Init /\ [][NextQuota]_vars

\* SpecCodes: every spelling of the code input redeemed in either mode, the
\* bonus code up to MaxGrants times per profile, with clicks, tab and mode
\* switches and page loads in between
MaxGrants == 2

NextCodes ==
    \/ handleGameClick /\ EarnsWithin(1)
    \/ \E input \in CodeInputs :
          handleRedeemCode(input) /\ EarnsWithin(MaxGrants * BonusGrant + 1)
    \/ \E tabId \in TabIds : switchTab(tabId)
    \/ handleSwitchToCrypto
    \/ pageReload

SpecCodes == Init /\ [][NextCodes]_vars

\* SpecClock: the game loop with the timers of the page.  initializeGame
\* may be called again in the running page, up to MaxIntervals timers; set
\* rates, level sets of the GPU Miner, clicks and tab switches in between.
MaxIntervals == 2
MaxClockClicks == 12

NextClock ==
    \/ handleGameClick /\ EarnsWithin(MaxClockClicks)
    \/ gameLoop /\ EarnsWithin(MaxClockClicks)
    \/ \E tabId \in TabIds : switchTab(tabId)
    \/ \E input \in {Num((Scale + 1) \div 2), Num(2 * Scale)} :
          handleAdminSetCPS(input)
    \/ \E input \in {Num(0), Num(1 * Scale)} : handleAdminSetGpuLevel(input)
    \/ initializeGameAgain /\ intervals < MaxIntervals
    \/ pageReload

SpecClock == Init /\ [][NextClock]_vars

\* SpecLoad: the page runs in crypto mode over a localStorage whose pencil
\* slot was left by an earlier session, another tab or an edit by hand:
\* nothing, a complete record, a partial record, a record with values out
\* of range, or a string that is not JSON.
SlotContents ==
    {<< >>,
     <<JSONstringify([updateCPS(DEFAULT_GAME_STATE, "pencil") EXCEPT
                        !.clicks = 3 * Scale,
                        !.totalClicksEarned = 13 * Scale,
                        !.upgrades.cpuOverclock.level = 1,
                        !.cpc = 2 * Scale])>>,
     <<[clicks |-> 2 * Scale]>>,
     <<[clicks |-> 1 * Scale, isAdminUnlocked |-> TRUE,
        upgrades |-> [cpuOverclock |-> [level |-> 2]]]>>,
     <<[clicks |-> 1 * Scale,
        upgrades |-> [cpuOverclock |-> [level |-> 0 - 1],
                      gpuMiner |-> [level |-> 1]]]>>,
     <<[totalClicksEarned |-> 2 * Scale, upgrades |-> [gpuMiner |-> [baseCost |-> 100]]]>>,
     <<RawPayload("")>>,
     <<RawPayload("{clicks:")>>}

InitLoad ==
    /\ gameMode = "crypto"
    /\ quotaExceeded = FALSE
    /\ reloadPending = FALSE
    /\ intervals = 1
    /\ gameState = initializeGameState(EmptyStorage, "crypto")
    /\ \E contents \in SlotContents :
          storage = [EmptyStorage EXCEPT
                        ![CRYPTO_KEY] = <<JSONstringify(gameState)>>,
                        ![PENCIL_KEY] = contents]

NextLoad ==
    \/ handleGameClick /\ EarnsWithin(MaxModeClicks)
    \/ \E tabId \in TabIds : switchTab(tabId)
    \/ handleSwitchToCrypto
    \/ handleAdminSetCPS(Num((Scale + 1) \div 2))
    \/ pageReload

SpecLoad == InitLoad /\ [][NextLoad]_vars

\* SpecAdmin: the admin panel fed with every kind of text parseFloat can
\* meet, the text Infinity included.  A click or tick whose amount would be
\* Infinity is not followed.
NextAdmin ==
    \/ handleGameClick /\ gameState.cpc # Infinity /\ EarnsWithin(MaxModeClicks)
    \/ gameLoop /\ gameState.cps # Infinity /\ EarnsWithin(MaxModeClicks)
    \/ \E input \in AdminClicksInputs :
          handleAdminSetClicks(input) /\ EarnsWithin(MaxClicks)
    \/ \E input \in AdminCpcInputs \cup {Num(Infinity)} : handleAdminSetCPC(input)
    \/ \E input \in AdminCpsInputs \cup {Num(Infinity)} : handleAdminSetCPS(input)
    \/ \E input \in AdminLevelInputs \cup {Num(Infinity)} :
          handleAdminSetCpuLevel(input)
    \/ \E input \in AdminLevelInputs \cup {Num(Infinity)} :
          handleAdminSetGpuLevel(input)
    \/ pageReload

SpecAdmin == Init /\ [][NextAdmin]_vars

\* ------------------------------------------------------------------------
\* The remote-backend revision: one upgrade, no modes, the game state kept
\* in one Firestore document.  gameState holds that revision's state object
\* and storage the document.
\* ------------------------------------------------------------------------
REMOTE_DOC == "clickerState"

REMOTE_GAME_STATE ==
    [clicks |-> 0,
     cpc |-> 1 * Scale,
     upgrades |->
        [cpuOverclock |-> [level |-> 0, baseCost |-> 10,
                           costMultiplier |-> <<3, 2>>, cpcBonus |-> 1]]]

\* setDoc(docRef, gameState, { merge: true }) of a signed-in user: every
\* field of the document is overwritten by the state at the time of the call
remoteSetDoc(st, gs) == [st EXCEPT ![REMOTE_DOC] = <<gs>>]

\* the onSnapshot callback on a document that exists
remoteOnSnapshot(gs, st) ==
    LET data == st[REMOTE_DOC][1] IN
    [gs EXCEPT
        !.clicks = OrNumber(data.clicks, gs.clicks),
        !.cpc = OrNumber(data.cpc, gs.cpc),
        !.upgrades.cpuOverclock.level =
            OrNumber(data.upgrades.cpuOverclock.level, 0)]

remoteClickState(gs) == [gs EXCEPT !.clicks = @ + gs.cpc]

\* handleGameClick of the remote-backend revision: the save is throttled
\* to balances that are multiples of 10; a save is followed by the
\* listener's callback on the written document
remoteHandleGameClick ==
    /\ IF remoteClickState(gameState).clicks % (10 * Scale) = 0
       THEN /\ storage' = remoteSetDoc(storage, remoteClickState(gameState))
            /\ gameState' = remoteOnSnapshot(remoteClickState(gameState), storage')
       ELSE /\ gameState' = remoteClickState(gameState)
            /\ UNCHANGED storage
    /\ UNCHANGED <<gameMode, quotaExceeded, reloadPending, intervals>>

remoteBuyState(gs) ==
    LET upgrade1 == gs.upgrades.cpuOverclock
        cost == calculateCost(upgrade1.baseCost, upgrade1.costMultiplier,
                              upgrade1.level)
    IN [gs EXCEPT !.clicks = @ - cost * Scale,
                  !.cpc = @ + upgrade1.cpcBonus * Scale,
                  !.upgrades.cpuOverclock.level = @ + 1]

remoteHandleBuyUpgrade1 ==
    LET upgrade1 == gameState.upgrades.cpuOverclock
        cost == calculateCost(upgrade1.baseCost, upgrade1.costMultiplier,
                              upgrade1.level)
    IN /\ IF gameState.clicks >= cost * Scale
          THEN /\ storage' = remoteSetDoc(storage, remoteBuyState(gameState))
               /\ gameState' = remoteOnSnapshot(remoteBuyState(gameState), storage')
          ELSE UNCHANGED <<gameState, storage>>
       /\ UNCHANGED <<gameMode, quotaExceeded, reloadPending, intervals>>

\* SpecRemote: the session after sign-in, the listener having found no
\* document and saved the default state
MaxRemoteClicks == 40

InitRemote ==
    /\ gameMode = "crypto"
    /\ quotaExceeded = FALSE
    /\ reloadPending = FALSE
    /\ intervals = 1
    /\ gameState = REMOTE_GAME_STATE
    /\ storage = [k \in {REMOTE_DOC} |-> <<REMOTE_GAME_STATE>>]

NextRemote ==
    \/ remoteHandleGameClick /\ gameState'.clicks <= MaxRemoteClicks * Scale
    \/ remoteHandleBuyUpgrade1
          /\ gameState'.upgrades.cpuOverclock.level <= MaxLevel

SpecRemote == InitRemote /\ [][NextRemote]_vars

\* Two pages of the remote-backend revision signed in as the same user.
\* gameState maps each page to its state object; storage holds the
\* document, the setDoc calls still in flight (per page, in the order they
\* were made, each with the state it was called with) and the order
\* numbers of the calls: issued counts them, docSeq is the number of the
\* call the document comes from, doneSeq the highest number completed.
Contexts == {"pageA", "pageB"}
MaxPairClicks == 20
MaxInFlight == 2

\* faulty variant of remotePairCommit: a write older than the document is
\* dropped by the backend
remotePairCommit_newestKept(st, w) ==
    IF w.seq < st.docSeq
    THEN st
    ELSE [st EXCEPT ![REMOTE_DOC] = <<w.data>>, !.docSeq = w.seq]

\* the backend applies a completed setDoc: the document becomes the state
\* the call was made with
remotePairCommit(st, w) ==
    [st EXCEPT ![REMOTE_DOC] = <<w.data>>, !.docSeq = w.seq]

\* saveGame() in page c: setDoc is called with the state of that moment
\* and completes later
remotePairSave(st, c, gs) ==
    [st EXCEPT !.pending[c] = Append(@, [seq |-> st.issued + 1, data |-> gs]),
               !.issued = @ + 1]

\* handleGameClick in page c
remotePairClick(c) ==
    LET gs == remoteClickState(gameState[c]) IN
    /\ gameState' = [gameState EXCEPT ![c] = gs]
    /\ storage' = IF gs.clicks % (10 * Scale) = 0
                  THEN remotePairSave(storage, c, gs)
                  ELSE storage
    /\ UNCHANGED <<gameMode, quotaExceeded, reloadPending, intervals>>

\* the oldest setDoc of page c completes; the listeners of both pages are
\* called with the document
remotePairComplete(c) ==
    /\ storage.pending[c] # << >>
    /\ LET w == Head(storage.pending[c])
           st == [remotePairCommit(storage, w) EXCEPT
                     !.pending[c] = Tail(@),
                     !.doneSeq = IF w.seq > @ THEN w.seq ELSE @]
       IN /\ storage' = st
          /\ gameState' = [d \in Contexts |-> remoteOnSnapshot(gameState[d], st)]
    /\ UNCHANGED <<gameMode, quotaExceeded, reloadPending, intervals>>

InitRemotePair ==
    /\ gameMode = "crypto"
    /\ quotaExceeded = FALSE
    /\ reloadPending = FALSE
    /\ intervals = 1
    /\ gameState = [c \in Contexts |-> REMOTE_GAME_STATE]
    /\ storage = [clickerState |-> <<REMOTE_GAME_STATE>>,
                  pending |-> [c \in Contexts |-> << >>],
                  issued |-> 0, docSeq |-> 0, doneSeq |-> 0]

NextRemotePair ==
    \/ \E c \in Contexts :
          /\ remotePairClick(c)
          /\ gameState'[c].clicks <= MaxPairClicks * Scale
          /\ Len(storage'.pending[c]) <= MaxInFlight
    \/ \E c \in Contexts : remotePairComplete(c)

SpecRemotePair == InitRemotePair /\ [][NextRemotePair]_vars

\* ------------------------------------------------------------------------
\* Properties
\* ------------------------------------------------------------------------
\* a step of handleBuyUpgrade for some id that maps to upgrade k
BuyStep(k) ==
    \E upgradeId \in UpgradeIds :
        upgradeKeyOf(upgradeId) = k /\ handleBuyUpgrade(upgradeId)

\* C1: a purchase step lowers the balance only when the balance covers
\* nextCost of the level before the step, the level rises in that same
\* step, and the balance is never negative after a purchase attempt.
C1_PurchaseNeverOverdraws ==
    [][\A k \in UpgradeKeys :
         BuyStep(k) =>
            /\ (gameState'.clicks # gameState.clicks \/ Level(gameState', k) # Level(gameState, k))
                  => /\ gameState.clicks >= costOf(gameState, k) * Scale
                     /\ gameState'.clicks = gameState.clicks - costOf(gameState, k) * Scale
                     /\ Level(gameState', k) = Level(gameState, k) + 1
            /\ gameState'.clicks >= 0]_vars

\* C1 witness: CPU Overclock was bought with a balance equal to its cost
C1_Witness ==
    /\ Level(gameState, "cpuOverclock") = 1
    /\ gameState.clicks = 0
    /\ gameState.totalClicksEarned = 10 * Scale

\* C2: a purchase attempt with a balance below nextCost changes neither the
\* game state (balance, lifetime total, levels, cpc, cps, override flags)
\* nor the save slots.
C2_InsufficientFundsNoOp ==
    [][\A k \in UpgradeKeys :
         (BuyStep(k) /\ gameState.clicks < costOf(gameState, k) * Scale)
            => UNCHANGED <<gameState, storage, gameMode>>]_vars

\* C2 witness: balance 5 against a cost of 10
C2_Witness ==
    /\ gameState.clicks = 5 * Scale
    /\ costOf(gameState, "cpuOverclock") = 10
    /\ costOf(gameState, "gpuMiner") = 100

\* C3: a purchase of u that can be paid lowers the balance by nextCost of
\* the old level, raises u's level by one, keeps the other level and the
\* lifetime total, clears the override flag of the stat u feeds and only
\* that one, and recomputes the derived stats; from balance 10 at level 0
\* the CPU Overclock purchase ends at balance 0, level 1, next cost 15.
C3_SuccessfulPurchase ==
    [][\A k \in UpgradeKeys :
         (BuyStep(k) /\ gameState.clicks >= costOf(gameState, k) * Scale)
            => /\ gameState'.clicks = gameState.clicks - costOf(gameState, k) * Scale
               /\ Level(gameState', k) = Level(gameState, k) + 1
               /\ Level(gameState', OtherKey(k)) = Level(gameState, OtherKey(k))
               /\ gameState'.totalClicksEarned = gameState.totalClicksEarned
               /\ k = "cpuOverclock" =>
                     /\ ~gameState'.isCpcOverridden
                     /\ gameState'.isCpsOverridden = gameState.isCpsOverridden
               /\ k = "gpuMiner" =>
                     /\ ~gameState'.isCpsOverridden
                     /\ gameState'.isCpcOverridden = gameState.isCpcOverridden
               /\ IF gameState'.isCpcOverridden
                  THEN gameState'.cpc = gameState.cpc
                  ELSE gameState'.cpc = Scale * (1 + Level(gameState', "cpuOverclock"))
               /\ IF gameState'.isCpsOverridden
                  THEN gameState'.cps = gameState.cps
                  ELSE gameState'.cps = Scale * 5 * Level(gameState', "gpuMiner")
               /\ (k = "cpuOverclock" /\ gameState.clicks = 10 * Scale
                      /\ Level(gameState, k) = 0)
                     => /\ gameState'.clicks = 0
                        /\ Level(gameState', k) = 1
                        /\ costOf(gameState', k) = 15]_vars

\* C3 witness: CPU Overclock bought from balance 10 while the CPS override
\* stays in force
C3_Witness ==
    /\ Level(gameState, "cpuOverclock") = 1
    /\ gameState.clicks = 0
    /\ gameState.totalClicksEarned = 10 * Scale
    /\ gameState.isCpsOverridden
    /\ ~gameState.isCpcOverridden
    /\ gameState.cpc = 2 * Scale

\* steps that end or start an override
ValidInput(input, isLevel) == validateAdminInput(input, isLevel) # << >>

ReleaseCpcStep ==
    \/ BuyStep("cpuOverclock") /\ gameState.clicks >= costOf(gameState, "cpuOverclock") * Scale
    \/ \E input \in AdminLevelInputs :
          ValidInput(input, TRUE) /\ handleAdminSetCpuLevel(input)

ReleaseCpsStep ==
    \/ BuyStep("gpuMiner") /\ gameState.clicks >= costOf(gameState, "gpuMiner") * Scale
    \/ \E input \in AdminLevelInputs :
          ValidInput(input, TRUE) /\ handleAdminSetGpuLevel(input)

SetCpcStep(input) == ValidInput(input, FALSE) /\ handleAdminSetCPC(input)
SetCpsStep(input) == ValidInput(input, FALSE) /\ handleAdminSetCPS(input)

\* C9: a fresh profile has both flags false; a valid override sets the stat
\* to the given value and its flag; while the flag is set, every step that
\* is neither a new override of that stat nor a purchase or level-set of
\* the feeding upgrade keeps the stat and the flag; a purchase or level-set
\* of the feeding upgrade clears the flag and derives the stat from levels.
C9_OverrideFreezeRelease ==
    /\ ~gameState.isCpcOverridden /\ ~gameState.isCpsOverridden
    /\ [][/\ \A input \in AdminCpcInputs :
               SetCpcStep(input) =>
                  gameState'.isCpcOverridden /\ gameState'.cpc = input.v
          /\ \A input \in AdminCpsInputs :
               SetCpsStep(input) =>
                  gameState'.isCpsOverridden /\ gameState'.cps = input.v
          /\ (gameState.isCpcOverridden /\ ~ReleaseCpcStep
                /\ ~\E input \in AdminCpcInputs : SetCpcStep(input))
               => gameState'.isCpcOverridden /\ gameState'.cpc = gameState.cpc
          /\ (gameState.isCpsOverridden /\ ~ReleaseCpsStep
                /\ ~\E input \in AdminCpsInputs : SetCpsStep(input))
               => gameState'.isCpsOverridden /\ gameState'.cps = gameState.cps
          /\ ReleaseCpcStep =>
               /\ ~gameState'.isCpcOverridden
               /\ gameState'.cpc = Scale * (1 + Level(gameState', "cpuOverclock"))
          /\ ReleaseCpsStep =>
               /\ ~gameState'.isCpsOverridden
               /\ gameState'.cps = Scale * 5 * Level(gameState', "gpuMiner")]_vars

\* C9 witness: the CPS override survived earnings and a change of the CPU
\* Overclock level that CPS does not depend on
C9_Witness ==
    /\ gameState.isCpsOverridden
    /\ gameState.cps = (Scale + 1) \div 2
    /\ Level(gameState, "gpuMiner") = 1
    /\ Level(gameState, "cpuOverclock") = 1
    /\ gameState.clicks = 0
    /\ gameState.totalClicksEarned = 10 * Scale

\* the states updateCPS is called on inside the handlers: the current state
\* with one level and the override flags changed
RecomputeInputs ==
    {[gameState EXCEPT !.upgrades[k].level = l,
                       !.isCpcOverridden = a,
                       !.isCpsOverridden = b] :
        k \in UpgradeKeys, l \in 0..MaxLevel, a \in BOOLEAN, b \in BOOLEAN}

\* C10: updateCPS, under either mode's bonuses, yields cpc = 1 + sum(level *
\* cpcBonus) and cps = sum(level * cpsBonus) for a stat that is not
\* overridden and leaves an overridden stat, and every other stored field,
\* as it was.
C10_RecomputeDerivedStats ==
    \A mode \in Modes : \A gs \in RecomputeInputs \cup {gameState} :
        LET config == UPGRADE_CONFIGS[mode]
            l1 == Level(gs, "cpuOverclock")
            l2 == Level(gs, "gpuMiner")
            r == updateCPS(gs, mode)
        IN /\ r.cpc = IF gs.isCpcOverridden THEN gs.cpc
                      ELSE Scale * (1 + l1 * config.upgrade1.cpcBonus
                                      + l2 * config.upgrade2.cpcBonus)
           /\ r.cps = IF gs.isCpsOverridden THEN gs.cps
                      ELSE Scale * (l1 * config.upgrade1.cpsBonus
                                    + l2 * config.upgrade2.cpsBonus)
           /\ [r EXCEPT !.cpc = gs.cpc, !.cps = gs.cps,
                        !.totalUpgrades = gs.totalUpgrades] = gs

\* C10 witness: an overridden click power next to a derived CPS
C10_Witness ==
    /\ gameState.isCpcOverridden
    /\ gameState.cpc = 0
    /\ Level(gameState, "cpuOverclock") = 2
    /\ ~gameState.isCpsOverridden
    /\ Level(gameState, "gpuMiner") = 1
    /\ gameState.cps = 5 * Scale

\* C4: calculateCost is floor(baseCost * multiplier^level): it is the
\* largest integer not above the product, equals baseCost at level 0, does
\* not decrease from one level to the next, and gives 10, 15, 22 for
\* baseCost 10 and multiplier 1.5 at levels 0, 1, 2.
C4_CostModel ==
    /\ calculateCost(10, <<3, 2>>, 0) = 10
    /\ calculateCost(10, <<3, 2>>, 1) = 15
    /\ calculateCost(10, <<3, 2>>, 2) = 22
    /\ \A k \in UpgradeKeys :
          LET b == gameState.upgrades[k].baseCost
              m == gameState.upgrades[k].costMultiplier
          IN \A l \in 0..Level(gameState, k) :
                LET c == calculateCost(b, m, l) IN
                /\ c * MathPow(m[2], l) <= b * MathPow(m[1], l)
                /\ b * MathPow(m[1], l) < (c + 1) * MathPow(m[2], l)
                /\ l = 0 => c = b
                /\ calculateCost(b, m, l + 1) >= c

\* C4 witness: the second purchase of an upgrade of base cost 10 and
\* multiplier 1.5 was paid at 15, and the next cost is a rounded-down 22
C4_Witness ==
    /\ gameState.upgrades.cpuOverclock.baseCost = 10
    /\ gameState.upgrades.cpuOverclock.costMultiplier = <<3, 2>>
    /\ Level(gameState, "cpuOverclock") = 2
    /\ gameState.clicks = (CostFunds - 15) * Scale

InactiveSlotKey == IF gameMode = "pencil" THEN CRYPTO_KEY ELSE PENCIL_KEY

\* a step of an operation that is not a mode switch, a reset or a page load
InModeStep ==
    \/ handleGameClick
    \/ gameLoop
    \/ \E upgradeId \in UpgradeIds : handleBuyUpgrade(upgradeId)
    \/ \E tabId \in TabIds : switchTab(tabId)
    \/ \E input \in CodeInputs \ SwitchCodes : handleRedeemCode(input)
    \/ \E input \in AdminClicksInputs \cup AdminClicksGpuInputs :
          handleAdminSetClicks(input)
    \/ \E input \in AdminCpcInputs : handleAdminSetCPC(input)
    \/ \E input \in AdminCpsInputs : handleAdminSetCPS(input)
    \/ \E input \in AdminLevelInputs : handleAdminSetCpuLevel(input)
    \/ \E input \in AdminLevelInputs : handleAdminSetGpuLevel(input)

\* C5: a click, tick, purchase, redeem (other than the mode code), admin
\* set or tab switch leaves the save slot of the mode that is not active
\* exactly as it was.
C5_ModeIsolation ==
    [][InModeStep => storage'[InactiveSlotKey] = storage[InactiveSlotKey]]_vars

\* C5 witness: pencil mode has earned and saved a click of its own while
\* the crypto slot still holds what crypto mode left behind
C5_Witness ==
    /\ gameMode = "pencil"
    /\ storage[CRYPTO_KEY] # << >>
    /\ storage[CRYPTO_KEY][1].clicks = 1 * Scale
    /\ gameState.clicks = 2 * Scale
    /\ storage[PENCIL_KEY] = <<JSONstringify(gameState)>>

\* the fields a restored state is compared on
SameProgress(gs, other) ==
    /\ gs.clicks = other.clicks
    /\ gs.totalClicksEarned = other.totalClicksEarned
    /\ \A k \in UpgradeKeys : Level(gs, k) = Level(other, k)
    /\ gs.cpc = other.cpc
    /\ gs.cps = other.cps
    /\ gs.isCpcOverridden = other.isCpcOverridden
    /\ gs.isCpsOverridden = other.isCpsOverridden

SameState(gs, other) ==
    /\ SameProgress(gs, other)
    /\ gs.activeTab = other.activeTab
    /\ gs.isAdminUnlocked = other.isAdminUnlocked

ModeSwitchStep == gameMode' # gameMode /\ handleSwitchToCrypto

\* C6 (as claimed): a mode switch stores the state it leaves in the slot of
\* the outgoing mode, and a switch into a mode whose slot is stored brings
\* back exactly the stored state; with C5 this is the round trip A -> B ->
\* A.
C6_ModeRoundTrip ==
    [][ModeSwitchStep =>
          /\ storage'[getCurrentSaveKey(gameMode)] = <<JSONstringify(gameState)>>
          /\ storage[getCurrentSaveKey(gameMode')] # << >> =>
                SameState(gameState', storage[getCurrentSaveKey(gameMode')][1])]_vars

IsDefaultTemplate(gs) ==
    /\ gs.clicks = 0
    /\ gs.totalClicksEarned = 0
    /\ \A k \in UpgradeKeys : Level(gs, k) = 0
    /\ ~gs.isCpcOverridden
    /\ ~gs.isCpsOverridden
    /\ ~gs.isAdminUnlocked

\* C7 (as claimed): loading a slot that holds nothing yields the default
\* template whatever the in-memory state was, so a switch into a mode that
\* was never saved starts from the default template.
C7_AbsentSlotLoadsDefault ==
    [][(ModeSwitchStep /\ storage[getCurrentSaveKey(gameMode')] = << >>)
          => IsDefaultTemplate(gameState')]_vars

\* C8 (as claimed): saving the current state and loading it back gives the
\* same balance, lifetime total, cpc, cps, levels and override flags.
C8_SaveLoadRoundTrip ==
    SameProgress(
        loadGame(saveGame(storage, gameState, gameMode), DEFAULT_GAME_STATE, gameMode),
        gameState)

\* C11: updateCPS applied to its own result changes nothing: for either
\* mode and every combination of levels and override flags, the whole game
\* state after two calls in a row equals the state after one call.
C11_RecomputeIdempotent ==
    \A mode \in Modes : \A gs \in RecomputeInputs \cup {gameState} :
        updateCPS(updateCPS(gs, mode), mode) = updateCPS(gs, mode)

\* C11 witness: both stats derived from levels 2 and 2, the GPU Miner level
\* having been set after the CPU Overclock level
C11_Witness ==
    /\ Level(gameState, "cpuOverclock") = 2
    /\ Level(gameState, "gpuMiner") = 2
    /\ ~gameState.isCpcOverridden /\ ~gameState.isCpsOverridden
    /\ gameState.cpc = 3 * Scale
    /\ gameState.cps = 10 * Scale
    /\ gameState.totalUpgrades = 4
    /\ gameState = updateCPS(gameState, gameMode)

\* C12 (as claimed): after every manual click and every purchase the
\* persisted record holds exactly the in-memory state.
C12_WriteThrough ==
    [][(remoteHandleGameClick \/ remoteHandleBuyUpgrade1)
          => storage'[REMOTE_DOC] = <<gameState'>>]_vars

\* the state a completed switch into mode newMode leaves in memory: the
\* slot of newMode loaded, the stats recomputed, the saved tab re-activated
IncomingState(newMode) ==
    LET loaded == updateCPS(loadGame(storage, gameState, newMode), newMode)
    IN switchTabState(loaded, loaded.activeTab)

\* C13 (as claimed): a mode switch made while storage writes fail still
\* runs to completion and ends with the state of the incoming mode loaded
\* in memory.
C13_StorageFailureAbsorbed ==
    [][(quotaExceeded /\ handleSwitchToCrypto /\ gameMode' # gameMode)
          => gameState' = IncomingState(gameMode')]_vars

\* a step that loads the slot of the mode it ends in
LoadStep == ModeSwitchStep \/ pageReload

\* the payload that step reads
LoadedSlot == storage[getCurrentSaveKey(gameMode')]

\* the value the claim expects for a level: the stored one when it is a
\* whole number that is not negative, the template's 0 otherwise
ExpectedLevel(data, k) ==
    IF /\ "upgrades" \in DOMAIN data
       /\ k \in DOMAIN data.upgrades
       /\ "level" \in DOMAIN data.upgrades[k]
       /\ data.upgrades[k].level >= 0
    THEN data.upgrades[k].level
    ELSE 0

\* C14 (as claimed): loading a slot that holds a parseable record leaves,
\* in every level, balance and flag, the stored value when it is present
\* and valid and the default-template value otherwise.
C14_LoadSubstitutesDefaults ==
    [][(LoadStep /\ LoadedSlot # << >> /\ ~IsRaw(LoadedSlot[1]))
          => LET data == LoadedSlot[1] IN
             /\ \A k \in UpgradeKeys :
                   Level(gameState', k) = ExpectedLevel(data, k)
             /\ gameState'.clicks =
                   IF "clicks" \in DOMAIN data THEN data.clicks ELSE 0
             /\ gameState'.isAdminUnlocked =
                   IF "isAdminUnlocked" \in DOMAIN data
                   THEN data.isAdminUnlocked ELSE FALSE]_vars

\* C15 (as claimed): loading a slot whose payload cannot be parsed ends
\* with the in-memory state equal to the default template in every field.
C15_CorruptPayloadLoadsDefault ==
    [][(LoadStep /\ LoadedSlot # << >> /\ IsRaw(LoadedSlot[1]))
          => gameState' = updateCPS(DEFAULT_GAME_STATE, gameMode')]_vars

\* gained is cps rounded to the nearest whole number, a half rounding up
IsRounded(gained, cps) ==
    /\ gained % Scale = 0
    /\ 2 * gained - Scale <= 2 * cps
    /\ 2 * cps < 2 * gained + Scale

\* C16: a run of gameLoop changes nothing when cps <= 0; otherwise it adds
\* the same amount, cps rounded to the nearest whole number, to the balance
\* and to the lifetime total, and changes no level, flag or derived stat.
C16_TickEffect ==
    LET r == gameLoopState(gameState)
        gained == r.clicks - gameState.clicks
    IN IF gameState.cps <= 0
       THEN r = gameState
       ELSE /\ IsRounded(gained, gameState.cps)
            /\ r = [gameState EXCEPT
                        !.clicks = @ + gained,
                        !.totalClicksEarned = @ + gained]

\* C16 witness: two ticks at the derived rate of 5 of one GPU Miner, click
\* power overridden to 0
C16_Witness ==
    /\ gameState.cps = 5 * Scale
    /\ ~gameState.isCpsOverridden
    /\ gameState.isCpcOverridden
    /\ gameState.cpc = 0
    /\ gameState.clicks = 10 * Scale
    /\ gameState.totalClicksEarned = 10 * Scale
    /\ storage[getCurrentSaveKey(gameMode)] = <<JSONstringify(gameState)>>

\* the game state after n runs of gameLoop in a row
RECURSIVE Ticks(_, _)
Ticks(gs, n) == IF n <= 0 THEN gs ELSE Ticks(gameLoopState(gs), n - 1)

TickHorizon == 8

\* C17 (as claimed): with a rate above 0 and below 1, ticks alone raise the
\* balance after some number of ticks.
C17_SubUnitRateEventuallyPays ==
    (0 < gameState.cps /\ gameState.cps < 1 * Scale)
        => \E n \in 1..TickHorizon :
              Ticks(gameState, n).clicks > gameState.clicks

\* C18: a manual click is always possible and adds the current cpc to the
\* balance and to the lifetime total, leaving every other field of the game
\* state, and the mode, as they were.
C18_ManualClick ==
    /\ [](ENABLED handleGameClick)
    /\ [][handleGameClick =>
             /\ gameState' = [gameState EXCEPT
                                !.clicks = @ + gameState.cpc,
                                !.totalClicksEarned = @ + gameState.cpc]
             /\ gameMode' = gameMode]_vars

\* C18 witness: two clicks at click power 3, with no passive income and no
\* admin change of the balance
C18_Witness ==
    /\ gameState.cpc = 3 * Scale
    /\ gameState.clicks = 6 * Scale
    /\ gameState.totalClicksEarned = 6 * Scale
    /\ Level(gameState, "gpuMiner") = 0
    /\ ~gameState.isCpsOverridden

InvalidValue(input) == input.nan \/ input.v = Infinity \/ input.v < 0

\* C21 (as claimed): an admin set of cpc or cps with a value that is not a
\* finite number or is negative leaves the game state and the slots as they
\* were; with a valid value it sets the stat and its flag and nothing else.
C21_OverrideValidation ==
    [][/\ \A input \in AdminCpcInputs \cup {Num(Infinity)} :
             handleAdminSetCPC(input) =>
                IF InvalidValue(input)
                THEN UNCHANGED <<gameState, storage>>
                ELSE gameState' = [gameState EXCEPT !.cpc = input.v,
                                                    !.isCpcOverridden = TRUE]
      /\ \A input \in AdminCpsInputs \cup {Num(Infinity)} :
             handleAdminSetCPS(input) =>
                IF InvalidValue(input)
                THEN UNCHANGED <<gameState, storage>>
                ELSE gameState' = [gameState EXCEPT !.cps = input.v,
                                                    !.isCpsOverridden = TRUE]]_vars

LevelInputs == AdminLevelInputs \cup {Num(Infinity)}

\* the inputs the claim accepts as a level: whole numbers from 0 up
WholeLevel(input) ==
    /\ ~input.nan
    /\ \E n \in 0..MaxLevel : input.v = n * Scale

\* what a valid level-set of upgrade k to the value of input leaves
LevelSetResult(k, input) ==
    LET fedFlag == IF k = "cpuOverclock" THEN "isCpcOverridden" ELSE "isCpsOverridden"
        fedStat == IF k = "cpuOverclock" THEN "cpc" ELSE "cps"
        derived == IF k = "cpuOverclock"
                   THEN Scale * (1 + input.v \div Scale)
                   ELSE Scale * 5 * (input.v \div Scale)
    IN [gameState EXCEPT
           !.upgrades[k].level = input.v \div Scale,
           ![fedFlag] = FALSE,
           ![fedStat] = derived,
           !.totalUpgrades = input.v \div Scale + Level(gameState, OtherKey(k))]

\* C22: an admin level-set with a negative value, a value that is not a
\* whole number or no number at all changes nothing; with a whole number
\* from 0 up it sets that level, keeps the balance and the lifetime total,
\* clears the override flag of the stat the upgrade feeds and leaves that
\* stat at its level-derived value, the other stat and flag untouched.
C22_SetUpgradeLevel ==
    /\ [](\A input \in LevelInputs :
            ~WholeLevel(input) =>
               /\ ~ENABLED (handleAdminSetCpuLevel(input) /\ vars' # vars)
               /\ ~ENABLED (handleAdminSetGpuLevel(input) /\ vars' # vars))
    /\ [][\A input \in LevelInputs :
            WholeLevel(input) =>
               /\ handleAdminSetCpuLevel(input) =>
                      gameState' = LevelSetResult("cpuOverclock", input)
               /\ handleAdminSetGpuLevel(input) =>
                      gameState' = LevelSetResult("gpuMiner", input)]_vars

\* C22 witness: the CPU Overclock level was set to 2 on a profile that
\* never earned anything, under a CPS override that stays in force
C22_Witness ==
    /\ Level(gameState, "cpuOverclock") = 2
    /\ gameState.totalClicksEarned = 0
    /\ gameState.clicks = 0
    /\ ~gameState.isCpcOverridden
    /\ gameState.cpc = 3 * Scale
    /\ gameState.isCpsOverridden
    /\ gameState.cps = 1
    /\ storage[getCurrentSaveKey(gameMode)] = <<JSONstringify(gameState)>>

\* the ids no upgrade of either mode is registered under
UnknownUpgradeIds == UpgradeIds \ {"1", "2"}

\* C23 (as claimed): a purchase under an id that is not defined for the
\* active mode deducts nothing and changes no level.
C23_UnknownUpgradeRejected ==
    [][\A upgradeId \in UnknownUpgradeIds :
          handleBuyUpgrade(upgradeId) =>
             /\ gameState'.clicks = gameState.clicks
             /\ \A k \in UpgradeKeys : Level(gameState', k) = Level(gameState, k)]_vars

\* a valid admin level-set of upgrade k to the value of input
LevelSetStep(k, input) ==
    /\ ValidInput(input, TRUE)
    /\ IF k = "cpuOverclock"
       THEN handleAdminSetCpuLevel(input)
       ELSE handleAdminSetGpuLevel(input)

\* C24: within one mode the level of an upgrade changes only in a purchase
\* that is paid, and then by exactly +1, or in a valid admin level-set, and
\* then to the value given; every other step, failed ones included, keeps
\* every level, so a level never goes down without an admin level-set.
C24_LevelChanges ==
    [][\A k \in UpgradeKeys :
          Level(gameState', k) # Level(gameState, k) =>
             \/ /\ \E upgradeId \in {"1", "2"} :
                      upgradeKeyOf(upgradeId) = k /\ handleBuyUpgrade(upgradeId)
                /\ gameState.clicks >= costOf(gameState, k) * Scale
                /\ Level(gameState', k) = Level(gameState, k) + 1
             \/ \E input \in AdminLevelInputs :
                   /\ LevelSetStep(k, input)
                   /\ Level(gameState', k) * Scale = input.v]_vars

\* C24 witness: two purchases of the CPU Overclock, at 10 and at 15, out
\* of a balance of 100
C24_Witness ==
    /\ Level(gameState, "cpuOverclock") = 2
    /\ Level(gameState, "gpuMiner") = 0
    /\ gameState.totalClicksEarned = 100 * Scale
    /\ gameState.clicks = 75 * Scale

\* spellings of the table's codes, of a code that is not in the table, and
\* of no code at all
AdminSpellings == {<<" ", "a", "d", "m", "i", "n", " ">>, <<"A", "D", "M", "I", "N">>}
GrantSpellings == {<<"b", "o", "r", "n", "T", "O", "C", "O", "D", "E">>}
ModeSpellings ==
    {<<"K", "a", "i", "t", "l", "y", "n", "C", "l", "a", "r", "k", " ">>}
UnknownCodes == {<<"x", "y", "z">>}
EmptyCodes == {<<" ", " ">>, << >>}

\* C25: a code matches whatever its case and the whitespace around it: the
\* admin code unlocks the panel, the bonus code grants 5000, the mode code
\* switches to pencil mode; a code that is not in the table and an empty or
\* blank code change neither the game state, the mode nor the slots.
C25_RedeemMatching ==
    [](/\ \A input \in UnknownCodes \cup EmptyCodes :
            ~ENABLED (handleRedeemCode(input) /\ vars' # vars)
       /\ \A input \in UnknownCodes :
            codeMessage(input, gameState, gameMode) = "Invalid code. Try again!"
       /\ \A input \in EmptyCodes :
            codeMessage(input, gameState, gameMode) = "Please enter a code."
       /\ \A input \in AdminSpellings :
            ~gameState.isAdminUnlocked =>
                ENABLED (handleRedeemCode(input) /\ gameState'.isAdminUnlocked)
       /\ \A input \in GrantSpellings :
            ENABLED (handleRedeemCode(input)
                        /\ gameState'.clicks = gameState.clicks + 5000 * Scale)
       /\ \A input \in ModeSpellings :
            gameMode = "crypto" =>
                ENABLED (handleRedeemCode(input) /\ gameMode' = "pencil"))

\* C25 witness: the admin panel was unlocked, by either spelling, on a
\* profile that has earned nothing
C25_Witness ==
    /\ gameState.isAdminUnlocked
    /\ gameState.activeTab = "admin"
    /\ gameState.totalClicksEarned = 0
    /\ \A k \in UpgradeKeys : Level(gameState, k) = 0
    /\ storage[getCurrentSaveKey(gameMode)] = <<JSONstringify(gameState)>>

\* the game state after one more bonus: 5000 more clicks, 5000 more earned
Granted(gs) ==
    [gs EXCEPT !.clicks = @ + 5000 * Scale,
               !.totalClicksEarned = @ + 5000 * Scale]

\* C26: every redemption of BORNTOCODE adds exactly 5000 to clicks and 5000
\* to totalClicksEarned and changes nothing else of the game state or the
\* mode, and it does so in every state, however often it was redeemed
\* before.
C26_BonusGrant ==
    [](\A input \in GrantSpellings :
          /\ ENABLED (handleRedeemCode(input) /\ gameState' = Granted(gameState)
                         /\ gameMode' = gameMode)
          /\ ~ENABLED (handleRedeemCode(input)
                         /\ ~(gameState' = Granted(gameState) /\ gameMode' = gameMode)))

\* C26 witness: two redemptions in a row on a fresh profile, saved
C26_Witness ==
    /\ gameState.clicks = 2 * 5000 * Scale
    /\ gameState.totalClicksEarned = 2 * 5000 * Scale
    /\ storage[getCurrentSaveKey(gameMode)] = <<JSONstringify(gameState)>>

\* C27: redeeming the admin code while isAdminUnlocked is set, or the
\* pencil-mode code while pencil mode is active, reports the already-active
\* outcome and changes neither the game state, the mode nor a slot; the
\* first redemption of the admin code sets isAdminUnlocked, reports the
\* unlock and leaves the flag in the saved slot of the mode.
C27_UnlockIdempotent ==
    [](/\ \A input \in AdminSpellings :
            IF gameState.isAdminUnlocked
            THEN /\ ~ENABLED (handleRedeemCode(input) /\ vars' # vars)
                 /\ codeMessage(input, gameState, gameMode)
                        = "Admin panel is already unlocked!"
            ELSE /\ ENABLED handleRedeemCode(input)
                 /\ ~ENABLED (handleRedeemCode(input)
                                /\ ~(/\ gameState'.isAdminUnlocked
                                     /\ gameMode' = gameMode
                                     /\ Len(storage'[getCurrentSaveKey(gameMode)]) = 1
                                     /\ storage'[getCurrentSaveKey(gameMode)][1].isAdminUnlocked))
                 /\ codeMessage(input, gameState, gameMode)
                        = "ADMIN panel UNLOCKED! Check the new tab!"
       /\ \A input \in ModeSpellings :
            gameMode = "pencil" =>
               /\ ~ENABLED (handleRedeemCode(input) /\ vars' # vars)
               /\ codeMessage(input, gameState, gameMode)
                      = "Pencil Clicker is already active!")

\* C27 witness: pencil mode is active with the admin panel unlocked in it,
\* the state in which both unlock codes are already in effect
C27_Witness ==
    /\ gameMode = "pencil"
    /\ gameState.isAdminUnlocked
    /\ storage[PENCIL_KEY] = <<JSONstringify(gameState)>>

\* C28: once isAdminUnlocked is set it stays set in the in-memory game
\* state through every later step (mode switches in either direction and
\* page loads included) until handleResetGame has been called.
C28_AdminUnlockSticks ==
    [][(gameState.isAdminUnlocked /\ ~reloadPending /\ ~handleResetGame)
          => gameState'.isAdminUnlocked]_vars

\* C29: handleResetGame removes both save slots and the mode tracker and
\* at once puts the in-memory game back to the default state of crypto
\* mode.
C29_ResetAll ==
    [][handleResetGame =>
          /\ storage' = EmptyStorage
          /\ gameMode' = "crypto"
          /\ gameState' = initializeGameState(EmptyStorage, "crypto")]_vars

\* C30: in a mode switch the outgoing state is written to the slot of the
\* outgoing mode before the mode tracker is written: after no storage write
\* of switchGameMode does the tracker name the new mode while the slot of
\* the outgoing mode holds something other than the outgoing state.  The
\* time between a reset and the reload it arms is left out.
C30_SwitchOrder ==
    ~reloadPending =>
    \A newMode \in Modes \ {gameMode} :
       LET writes == switchGameModeWrites(storage, gameState, gameMode, newMode)
       IN \A i \in 1..Len(writes) :
             writes[i][GAME_MODE_KEY] = <<newMode>> =>
                writes[i][getCurrentSaveKey(gameMode)] = <<JSONstringify(gameState)>>

\* a call of switchGameMode with the mode that is active
SwitchToActiveMode ==
    /\ switchGameMode(gameMode)
    /\ UNCHANGED <<quotaExceeded, reloadPending, intervals>>

\* C31: switchGameMode called with the active mode is a no-op: it can be
\* called in every state, and no step of it changes the game state, the
\* mode, a save slot or the mode tracker.
C31_SwitchToActiveModeNoOp ==
    [](/\ ENABLED SwitchToActiveMode
       /\ ~ENABLED (SwitchToActiveMode /\ vars' # vars))

\* C31 witness: pencil mode is active and its slot is behind the state in
\* memory, so a switch that did run would write the slot
C31_Witness ==
    /\ gameMode = "pencil"
    /\ storage[GAME_MODE_KEY] = <<"pencil">>
    /\ storage[PENCIL_KEY] # <<JSONstringify(gameState)>>
    /\ storage[PENCIL_KEY] # << >>
    /\ ~reloadPending

\* what one clock period adds to the balance: every timer of the page runs
\* gameLoop once
PeriodGain == Ticks(gameState, intervals).clicks - gameState.clicks

\* C32: the game loop has one timer per session, also after initializeGame
\* has run again, so a clock period never adds more than round(cps).
C32_ClockStartedOnce ==
    /\ intervals <= 1
    /\ PeriodGain <= MathRound(gameState.cps)

\* C33: cpc is above 0 in every reachable state, so a click always raises
\* the balance.
C33_CpcPositive ==
    /\ gameState.cpc > 0
    /\ clickState(gameState).clicks > gameState.clicks

C35_DerivedStats ==
    LET config == UPGRADE_CONFIGS[gameMode] IN
    /\ ~gameState.isCpcOverridden =>
          gameState.cpc
             = Scale * (1 + Level(gameState, "cpuOverclock") * config.upgrade1.cpcBonus)
    /\ ~gameState.isCpsOverridden =>
          gameState.cps
             = Scale * (Level(gameState, "gpuMiner") * config.upgrade2.cpsBonus)

\* C35 witness: back in crypto mode after a visit to pencil mode, with a
\* CPU Overclock bought in crypto mode only and neither stat overridden
C35_Witness ==
    /\ gameMode = "crypto"
    /\ storage[GAME_MODE_KEY] = <<"crypto">>
    /\ ~gameState.isCpcOverridden /\ ~gameState.isCpsOverridden
    /\ Level(gameState, "cpuOverclock") = 1
    /\ gameState.cpc = 2 * Scale
    /\ storage[PENCIL_KEY] # << >>
    /\ storage[PENCIL_KEY][1].upgrades.cpuOverclock.level = 0

\* C36: the state in memory is the one loaded or initialised for the active
\* mode: a mode switch ends with the mode tracker naming the new mode, with
\* the state a load of the new mode's slot onto the default template
\* gives, and with that state in the new mode's slot.
C36_SlotOwnership ==
    [][ModeSwitchStep =>
          /\ storage'[GAME_MODE_KEY] = <<gameMode'>>
          /\ gameState' = initializeGameState(storage, gameMode')
          /\ storage'[getCurrentSaveKey(gameMode')] = <<JSONstringify(gameState')>>]_vars

\* the slot of the active mode
ActiveSlot == getCurrentSaveKey(gameMode)

\* what the claim says of one firing of the clock, as a step
FiringAsClaimed ==
    LET gain == IF gameState.cps > 0 THEN MathRound(gameState.cps) ELSE 0
        saves == /\ gameState.cps > 0
                 /\ (MathFloor(gameState.clicks + gain) \div Scale) % 5 = 0
    IN /\ gameState'.clicks = gameState.clicks + gain
       /\ IF saves
          THEN storage' = [storage EXCEPT ![ActiveSlot] = <<JSONstringify(gameState')>>]
          ELSE storage' = storage
       /\ gameState.cps <= 0 => UNCHANGED vars

\* C37: a firing of the clock writes the slot of the active mode exactly
\* when cps > 0 and floor(clicks) after the gain is divisible by 5, and a
\* firing with cps <= 0 changes nothing: gameLoop can fire in every state
\* and has no other step.
C37_PeriodicSave ==
    [](/\ ENABLED gameLoop
       /\ ~ENABLED (gameLoop /\ ~FiringAsClaimed))

\* C37 witness: a firing has just saved (the balance is a positive multiple
\* of 5 and the slot holds it) at a rate that does not divide 5
C37_Witness ==
    /\ gameState.cps = 2 * Scale
    /\ gameState.clicks = 10 * Scale
    /\ gameState.totalClicksEarned = 10 * Scale
    /\ storage[ActiveSlot] = <<JSONstringify(gameState)>>

\* round(cps) is a positive multiple of 5 and floor(clicks) is no multiple
\* of 5
Starving(gs) ==
    /\ MathRound(gs.cps) > 0
    /\ (MathRound(gs.cps) \div Scale) % 5 = 0
    /\ (MathFloor(gs.clicks) \div Scale) % 5 # 0

\* C38: while round(cps) is a positive multiple of 5 and floor(clicks) is
\* not a multiple of 5, a firing of the clock writes nothing to storage and
\* leaves the game in such a state again, so no number of firings in a row
\* ever saves.
C38_PeriodicSaveStarvation ==
    /\ [](Starving(gameState) =>
             /\ ENABLED gameLoop
             /\ ~ENABLED (gameLoop /\ storage' # storage)
             /\ \A n \in 1..TickHorizon : Starving(Ticks(gameState, n)))
    /\ [][(Starving(gameState) /\ gameLoop) => storage' = storage]_vars

\* C38 witness: two firings at a rate of 5 took the balance from 1 to 11,
\* and the slot still holds the balance 1
C38_Witness ==
    /\ gameState.cps = 5 * Scale
    /\ gameState.clicks = 11 * Scale
    /\ storage[ActiveSlot] # << >>
    /\ storage[ActiveSlot][1].clicks = 1 * Scale

\* C39: between handleResetGame and the reload it arms nothing writes a
\* save slot or the mode tracker: while the reload is pending all three
\* keys stay absent, so the reload starts from the default state.
C39_ResetDurable ==
    reloadPending => storage = EmptyStorage

\* C40: from the default state on, totalClicksEarned >= clicks in every
\* reachable state, under clicks, ticks, purchases, redeemed codes, admin
\* sets of the balance, overrides and level sets.
C40_EarnedCoversBalance ==
    gameState.totalClicksEarned >= gameState.clicks

\* C40 witness: 10 granted by the admin panel, spent on a CPU Overclock,
\* then one click at the new click power of 2
C40_Witness ==
    /\ gameState.totalClicksEarned = 12 * Scale
    /\ gameState.clicks = 2 * Scale
    /\ Level(gameState, "cpuOverclock") = 1
    /\ Level(gameState, "gpuMiner") = 0
    /\ ~gameState.isCpcOverridden

====
